---------------------------- MODULE Spec2Model ----------------------------
(***************************************************************************)
(* Model of the playlist_mgr daemon: the Player actor of src/player.rs,    *)
(* its command queue, the mpv watchers it registers, and the connection    *)
(* handlers of src/main.rs that feed the queue.                            *)
(*                                                                         *)
(* Option<T> is modelled as a sequence of length at most one:              *)
(* None = <<>>, Some(x) = <<x>>.  Vec / VecDeque are sequences; Rust's     *)
(* 0-based indices are kept in `position` and shifted on access.           *)
(***************************************************************************)
EXTENDS Integers, Sequences, FiniteSets, TLC

VARIABLES
    mode,          \* Player.mode
    songs,         \* Player.songs
    history,       \* Player.history
    playlist,      \* Player.playlist
    current,       \* Player.current       (Option)
    should_play,   \* Player.should_play
    position,      \* Player.position
    control_pipe,  \* Player.control_pipe  (Option of the child it is wired to)
    last_start,    \* Player.last_start    (Option of an instant)
    queue,         \* the unbounded mpsc queue of Cmd
    conn,          \* per connection that may terminate: "open", "waiting", "acked"
    procs,         \* the mpv children: state and directives written to fd 4
    now,           \* the monotonic clock read by Instant::now()
    alive,         \* FALSE once process::exit(0) ran
    panicked,      \* TRUE once an assert! of start failed in the actor
    nSpawned,      \* number of successful spawns since the initial state
    picked         \* log of the choose_song calls of the selector harness

vars == <<mode, songs, history, playlist, current, should_play, position,
          control_pipe, last_start, queue, conn, procs, now, alive, panicked,
          nSpawned, picked>>

-----------------------------------------------------------------------------
(* Bounds of the model *)

MaxQueue == 1
MaxSpawns == 2
MaxProcs == 2
NumConns == 1
MaxSongs == 4
MaxPicks == 5
MaxPlaylist == 3

(* Program constants *)

HistoryMax == 100
RestartSecs == 2

-----------------------------------------------------------------------------
None == <<>>
Some(x) == <<x>>
Unwrap(o) == o[1]

Modes == {"Random", "Sequence", "Circular"}
Conns == 1..NumConns
Pids == 1..MaxProcs

Last(s) == s[Len(s)]
Front(s) == SubSeq(s, 1, Len(s) - 1)

(* The paths a client may submit.  "evil.zip" is an existing file with a   *)
(* forbidden extension, "gone.mp3" does not exist.                         *)
Paths == {"a", "b", "c", "evil.zip", "gone.mp3"}

FORBIDDEN_EXTS == {"zip"}

IsFile(path) == path # "gone.mp3"

Extension(path) == IF path = "evil.zip" THEN Some("zip") ELSE None

Forbidden(path) ==
    IF Extension(path) = None THEN FALSE
    ELSE Unwrap(Extension(path)) \in FORBIDDEN_EXTS

RECURSIVE Admit(_)
Admit(lines) ==
    IF lines = <<>> THEN <<>>
    ELSE IF ~IsFile(Head(lines)) \/ Forbidden(Head(lines))
         THEN Admit(Tail(lines))
         ELSE <<Head(lines)>> \o Admit(Tail(lines))

(* The blocks of lines a `load` may be followed by. *)
Submissions == { <<"a", "evil.zip", "b">>, <<"gone.mp3">> }

-----------------------------------------------------------------------------
(* The state the actor's handlers read and write, as one record, so that   *)
(* a handler calling another (done -> start, prev -> next -> start) is the *)
(* composition of their operators.                                         *)

St ==
    [ mode |-> mode, songs |-> songs, history |-> history,
      playlist |-> playlist, current |-> current, should_play |-> should_play,
      position |-> position, control_pipe |-> control_pipe,
      last_start |-> last_start, conn |-> conn, procs |-> procs, now |-> now,
      panicked |-> panicked, nSpawned |-> nSpawned ]

Apply(s) ==
    /\ mode' = s.mode
    /\ songs' = s.songs
    /\ history' = s.history
    /\ playlist' = s.playlist
    /\ current' = s.current
    /\ should_play' = s.should_play
    /\ position' = s.position
    /\ control_pipe' = s.control_pipe
    /\ last_start' = s.last_start
    /\ conn' = s.conn
    /\ procs' = s.procs
    /\ now' = s.now
    /\ panicked' = s.panicked
    /\ nSpawned' = s.nSpawned

FreeProc == [st |-> "free", sent |-> {}]

(* Player::new *)
NewPlayer ==
    /\ mode = "Random"
    /\ songs = <<>>
    /\ history = <<>>
    /\ playlist = <<>>
    /\ current = None
    /\ should_play = FALSE
    /\ position = 0
    /\ control_pipe = None
    /\ last_start = None

(* Vec::get with a 0-based index *)
Get(v, i) == IF i < Len(v) THEN Some(v[i + 1]) ELSE None

(* Variant: the loop pops at the back *)
RECURSIVE TrimHistory_Back(_)
TrimHistory_Back(h) ==
    IF Len(h) > HistoryMax THEN TrimHistory_Back(Front(h)) ELSE h

(* The `while self.history.len() > 100 { pop_front }` loop of done *)
RECURSIVE TrimHistory(_)
TrimHistory(h) == IF Len(h) > HistoryMax THEN TrimHistory(Tail(h)) ELSE h

(* Variant: Circular resets the cursor only past the end, like Sequence *)
Cursor_CircularPastEnd(s, rnd) ==
    CASE s.mode = "Random" -> rnd
      [] s.mode = "Sequence" /\ s.position > Len(s.songs) -> 0
      [] s.mode = "Circular" /\ s.position > Len(s.songs) -> 0
      [] OTHER -> s.position

(* Variant: Sequence never resets the cursor *)
Cursor_SequenceNoReset(s, rnd) ==
    CASE s.mode = "Random" -> rnd
      [] s.mode = "Circular" /\ s.position >= Len(s.songs) -> 0
      [] OTHER -> s.position

(* Variant: Sequence resets the cursor at the end already, like Circular *)
Cursor_SequenceAtEnd(s, rnd) ==
    CASE s.mode = "Random" -> rnd
      [] s.mode = "Sequence" /\ s.position >= Len(s.songs) -> 0
      [] s.mode = "Circular" /\ s.position >= Len(s.songs) -> 0
      [] OTHER -> s.position

(* The `match self.mode` of choose_song: the value of self.position after  *)
(* it, which is the index the following songs.get reads.                   *)
Cursor(s, rnd) ==
    CASE s.mode = "Random" -> rnd
      [] s.mode = "Sequence" /\ s.position > Len(s.songs) -> 0
      [] s.mode = "Circular" /\ s.position >= Len(s.songs) -> 0
      [] OTHER -> s.position

(* Variant: the override playlist is consumed from its front *)
choose_song_Fifo(s, rnd) ==
    IF s.playlist # <<>>
    THEN [st |-> [s EXCEPT !.playlist = Tail(s.playlist)],
          ret |-> Some(Head(s.playlist))]
    ELSE IF s.songs = <<>>
    THEN [st |-> s, ret |-> None]
    ELSE LET pos == Cursor(s, rnd)
         IN  [st |-> [s EXCEPT !.position = pos + 1],
              ret |-> Get(s.songs, pos)]

(* Player::choose_song.  rnd is the value gen_range(0, len) draws.  The    *)
(* result pairs the state after the call with the returned Option.         *)
choose_song(s, rnd) ==
    IF s.playlist # <<>>
    THEN [st |-> [s EXCEPT !.playlist = Front(s.playlist)],
          ret |-> Some(Last(s.playlist))]
    ELSE IF s.songs = <<>>
    THEN [st |-> s, ret |-> None]
    ELSE LET pos == Cursor(s, rnd)
         IN  [st |-> [s EXCEPT !.position = pos + 1],
              ret |-> Get(s.songs, pos)]

(* The lowest free slot of the process table, taken by a successful spawn *)
FreePids(s) == {p \in Pids : s.procs[p].st = "free"}
NewPid(s) == CHOOSE p \in FreePids(s) : \A q \in FreePids(s) : p <= q

(* The outcomes spawn_async may have: TRUE is Ok, FALSE is Err.  The OS     *)
(* refuses once the process table is full or MaxSpawns children were made.  *)
SpawnOutcomes(s) ==
    IF FreePids(s) # {} /\ s.nSpawned < MaxSpawns THEN BOOLEAN ELSE {FALSE}

(* Instants are only ever subtracted from a later reading (prev): while no *)
(* instant is stored the origin of the clock is moved to the present.      *)
Epoch == 0

Rebase(s) == IF s.last_start = None THEN [s EXCEPT !.now = Epoch] ELSE s

(* Variant: a start that selects nothing leaves should_play as it was *)
start_NothingKeepsIntent(s, rnd, ok) ==
    LET c == choose_song(s, rnd)
        t == Rebase(c.st)
    IN  IF c.ret # None
        THEN IF t.control_pipe # None \/ t.current # None
             THEN [t EXCEPT !.panicked = TRUE]
             ELSE IF ~ok
             THEN [t EXCEPT !.should_play = FALSE]
             ELSE [t EXCEPT !.control_pipe = Some(NewPid(t)),
                            !.current = c.ret,
                            !.last_start = Some(t.now),
                            !.procs[NewPid(t)] = [st |-> "running", sent |-> {}],
                            !.nSpawned = @ + 1]
        ELSE t

(* Variant: a failed spawn leaves should_play as it was *)
start_FailKeepsIntent(s, rnd, ok) ==
    LET c == choose_song(s, rnd)
        t == Rebase(c.st)
    IN  IF c.ret # None
        THEN IF t.control_pipe # None \/ t.current # None
             THEN [t EXCEPT !.panicked = TRUE]
             ELSE IF ~ok
             THEN t
             ELSE [t EXCEPT !.control_pipe = Some(NewPid(t)),
                            !.current = c.ret,
                            !.last_start = Some(t.now),
                            !.procs[NewPid(t)] = [st |-> "running", sent |-> {}],
                            !.nSpawned = @ + 1]
        ELSE [t EXCEPT !.should_play = FALSE]

(* Player::start.  ok is the outcome of the spawn. *)
start(s, rnd, ok) ==
    LET c == choose_song(s, rnd)
        t == Rebase(c.st)
    IN  IF c.ret # None
        THEN IF t.control_pipe # None \/ t.current # None
             THEN [t EXCEPT !.panicked = TRUE]
             ELSE IF ~ok
             THEN [t EXCEPT !.should_play = FALSE]
             ELSE [t EXCEPT !.control_pipe = Some(NewPid(t)),
                            !.current = c.ret,
                            !.last_start = Some(t.now),
                            !.procs[NewPid(t)] = [st |-> "running", sent |-> {}],
                            !.nSpawned = @ + 1]
        ELSE [t EXCEPT !.should_play = FALSE]

(* Variant: done forgets to drop the control pipe *)
done_KeepsPipe(s, rnd, ok) ==
    LET s1 == IF s.current # None
              THEN [s EXCEPT !.history = TrimHistory(Append(@, Unwrap(s.current))),
                             !.current = None]
              ELSE s
        s2 == [s1 EXCEPT !.last_start = None]
    IN  IF s2.should_play THEN start(s2, rnd, ok) ELSE s2

(* Variant: done starts the next song whatever should_play says *)
done_AlwaysAdvances(s, rnd, ok) ==
    LET s1 == IF s.current # None
              THEN [s EXCEPT !.history = TrimHistory(Append(@, Unwrap(s.current))),
                             !.current = None]
              ELSE s
        s2 == [s1 EXCEPT !.control_pipe = None, !.last_start = None]
    IN  start(s2, rnd, ok)

(* Player::done *)
done(s, rnd, ok) ==
    LET s1 == IF s.current # None
              THEN [s EXCEPT !.history = TrimHistory(Append(@, Unwrap(s.current))),
                             !.current = None]
              ELSE s
        s2 == [s1 EXCEPT !.control_pipe = None, !.last_start = None]
    IN  IF s2.should_play THEN start(s2, rnd, ok) ELSE s2

(* Player::send_mpv: write_all on the control pipe; the write fails, and   *)
(* the failure is dropped, when the child at the other end has exited.     *)
send_mpv(s, key) ==
    IF s.control_pipe # None
    THEN LET p == Unwrap(s.control_pipe)
         IN  IF s.procs[p].st = "running"
             THEN [s EXCEPT !.procs[p].sent = @ \cup {key}]
             ELSE s
    ELSE s

pause(s) == send_mpv(s, "pause")

stop_song(s) == send_mpv(s, "quit")

(* Variant: play_pause starts a song also while a pipe is stored *)
play_pause_Restarts(s, rnd, ok) ==
    start([s EXCEPT !.should_play = TRUE], rnd, ok)

(* Player::play_pause *)
play_pause(s, rnd, ok) ==
    LET s1 == [s EXCEPT !.should_play = TRUE]
    IN  IF s1.control_pipe # None THEN pause(s1) ELSE start(s1, rnd, ok)

(* Variant: next does not set should_play *)
next_KeepsIntent(s, rnd, ok) ==
    IF s.control_pipe # None THEN stop_song(s) ELSE start(s, rnd, ok)

(* Player::next *)
next(s, rnd, ok) ==
    LET s1 == [s EXCEPT !.should_play = TRUE]
    IN  IF s1.control_pipe # None THEN stop_song(s1) ELSE start(s1, rnd, ok)

(* Variant: prev takes current without pushing it onto the playlist *)
prev_DropsCurrent(s, rnd, ok) ==
    LET s1 == [s EXCEPT !.current = None]
        restart == IF s1.last_start # None
                   THEN s1.now - Unwrap(s1.last_start) > RestartSecs
                   ELSE FALSE
        s2 == [s1 EXCEPT !.last_start = None]
        s3 == IF ~restart /\ s2.history # <<>>
              THEN [s2 EXCEPT !.history = Front(@),
                              !.playlist = Append(@, Last(s2.history))]
              ELSE s2
    IN  IF s3.playlist # <<>> THEN next(s3, rnd, ok) ELSE s3

(* Variant: prev pushes the history entry below the current song *)
prev_CurrentOnTop(s, rnd, ok) ==
    LET restart == IF s.last_start # None
                   THEN s.now - Unwrap(s.last_start) > RestartSecs
                   ELSE FALSE
        s1 == IF ~restart /\ s.history # <<>>
              THEN [s EXCEPT !.history = Front(@),
                             !.playlist = Append(@, Last(s.history))]
              ELSE s
        s2 == IF s1.current # None
              THEN [s1 EXCEPT !.playlist = Append(@, Unwrap(s1.current)),
                              !.current = None]
              ELSE s1
        s3 == [s2 EXCEPT !.last_start = None]
    IN  IF s3.playlist # <<>> THEN next(s3, rnd, ok) ELSE s3

(* Player::prev *)
prev(s, rnd, ok) ==
    LET s1 == IF s.current # None
              THEN [s EXCEPT !.playlist = Append(@, Unwrap(s.current)),
                             !.current = None]
              ELSE s
        restart == IF s1.last_start # None
                   THEN s1.now - Unwrap(s1.last_start) > RestartSecs
                   ELSE FALSE
        s2 == [s1 EXCEPT !.last_start = None]
        s3 == IF ~restart /\ s2.history # <<>>
              THEN [s2 EXCEPT !.history = Front(@),
                              !.playlist = Append(@, Last(s2.history))]
              ELSE s2
    IN  IF s3.playlist # <<>> THEN next(s3, rnd, ok) ELSE s3

(* Variant: stop drops the control pipe at once, without awaiting Done *)
stop_DropsPipe(s) ==
    [stop_song([s EXCEPT !.should_play = FALSE]) EXCEPT !.control_pipe = None]

(* Player::stop *)
stop(s) == stop_song([s EXCEPT !.should_play = FALSE])

(* Variant: Load resets the cursor also when it appends *)
load_AlwaysRewinds(s, c) ==
    IF c.append
    THEN [s EXCEPT !.songs = @ \o c.songs, !.position = 0]
    ELSE [s EXCEPT !.songs = c.songs, !.position = 0]

(* The Load arm of Player::cmd *)
load(s, c) ==
    IF c.append
    THEN [s EXCEPT !.songs = @ \o c.songs]
    ELSE [s EXCEPT !.songs = c.songs, !.position = 0]

(* The Mode arm of Player::cmd *)
set_mode(s, c) == [s EXCEPT !.mode = c.mode]

(* The Confirm arm of Player::cmd: sender.send(()) wakes the waiting task *)
confirm(s, c) ==
    IF s.conn[c.reply] = "waiting"
    THEN [s EXCEPT !.conn[c.reply] = "acked"]
    ELSE s

(* Player::cmd *)
cmd(s, c, rnd, ok) ==
    CASE c.type = "Play" -> play_pause(s, rnd, ok)
      [] c.type = "Stop" -> stop(s)
      [] c.type = "Next" -> next(s, rnd, ok)
      [] c.type = "Prev" -> prev(s, rnd, ok)
      [] c.type = "Load" -> load(s, c)
      [] c.type = "Mode" -> set_mode(s, c)
      [] c.type = "Confirm" -> confirm(s, c)
      [] c.type = "Done" -> done(s, rnd, ok)

(* The values gen_range(0, songs.len()) may return in the current state;  *)
(* it is only called under Random with songs not empty.                    *)
RandomDraws ==
    IF mode = "Random" /\ songs # <<>> THEN 0..(Len(songs) - 1) ELSE {0}

(* The commands whose handler may reach start, and so spawn *)
MayStart == {"Play", "Next", "Prev", "Done"}

-----------------------------------------------------------------------------
(* The actor loop of start_player: take the next Cmd, run Player::cmd.     *)

Exec(type) ==
    /\ alive /\ ~panicked
    /\ queue # <<>>
    /\ Head(queue).type = type
    /\ \E rnd \in (IF type \in MayStart THEN RandomDraws ELSE {0}),
          ok \in (IF type \in MayStart THEN SpawnOutcomes(St) ELSE {FALSE}) :
           Apply(Rebase(cmd(St, Head(queue), rnd, ok)))
    /\ queue' = Tail(queue)
    /\ UNCHANGED <<alive, picked>>

ExecPlay == Exec("Play")
ExecStop == Exec("Stop")
ExecNext == Exec("Next")
ExecPrev == Exec("Prev")
ExecLoad == Exec("Load")
ExecMode == Exec("Mode")
ExecConfirm == Exec("Confirm")
ExecDone == Exec("Done")

-----------------------------------------------------------------------------
(* player::send: unbounded_send on the queue.  A connection sends while     *)
(* fewer than MaxQueue commands are pending; a watcher sends at any time.   *)
send(q, c) == Append(q, c)

Simple(type) == [type |-> type]

(* The Done commands waiting in a queue *)
RECURSIVE NumDone(_)
NumDone(q) ==
    IF q = <<>> THEN 0
    ELSE (IF Head(q).type = "Done" THEN 1 ELSE 0) + NumDone(Tail(q))

(* Songs that pending Load commands may still append *)
RECURSIVE PendingLen(_)
PendingLen(q) ==
    IF q = <<>> THEN 0
    ELSE (IF Head(q).type = "Load" THEN Len(Head(q).songs) ELSE 0)
         + PendingLen(Tail(q))

Unchanged_player ==
    UNCHANGED <<mode, songs, history, playlist, current, should_play, position,
                control_pipe, last_start, procs, now, alive, panicked, nSpawned,
                picked>>

(* handle_cmd for the one-word commands play, next, prev, stop.  These and *)
(* mode and load may come from any connection; the accept loop of main     *)
(* always provides one, so their sender is not tracked.                    *)
ConnSimple(type) ==
    /\ alive
    /\ Len(queue) < MaxQueue
    /\ queue' = send(queue, Simple(type))
    /\ UNCHANGED conn
    /\ Unchanged_player

ConnPlay == ConnSimple("Play")
ConnNext == ConnSimple("Next")
ConnStop == ConnSimple("Stop")

(* Clients ask for the previous song while fewer than MaxPlaylist songs    *)
(* wait on the override playlist.                                          *)
ConnPrev == Len(playlist) < MaxPlaylist /\ ConnSimple("Prev")

(* handle_cmd, "mode" with a known mode word *)
ConnMode ==
    /\ alive
    /\ Len(queue) < MaxQueue
    /\ \E m \in Modes : queue' = send(queue, [type |-> "Mode", mode |-> m])
    /\ UNCHANGED conn
    /\ Unchanged_player

(* handle_cmd, "load": read the block of lines, keep the admissible paths *)
ConnLoad ==
    /\ alive
    /\ Len(queue) < MaxQueue
    /\ \E lines \in Submissions, append \in BOOLEAN :
           /\ Len(songs) + PendingLen(queue) + Len(Admit(lines)) <= MaxSongs
           /\ queue' = send(queue, [type |-> "Load", songs |-> Admit(lines),
                                    append |-> append])
    /\ UNCHANGED conn
    /\ Unchanged_player

(* handle_cmd, "quit": the connection task ends, and the accept loop of     *)
(* main hands its place to the next connection, which is open again.       *)
ConnQuit(c) ==
    /\ alive
    /\ conn[c] = "open"
    /\ conn' = [conn EXCEPT ![c] = "open"]
    /\ UNCHANGED queue
    /\ Unchanged_player

(* Variant: terminate asks for the confirmation before it sends Stop *)
ConnTerminate_ConfirmFirst(c) ==
    /\ alive
    /\ conn[c] = "open"
    /\ Len(queue) < MaxQueue
    /\ queue' = send(send(queue, [type |-> "Confirm", reply |-> c]),
                     Simple("Stop"))
    /\ conn' = [conn EXCEPT ![c] = "waiting"]
    /\ Unchanged_player

(* handle_cmd, "terminate": send Stop, send Confirm, then wait for the     *)
(* reply; the two sends have no suspension point between them.             *)
ConnTerminate(c) ==
    /\ alive
    /\ conn[c] = "open"
    /\ Len(queue) < MaxQueue
    /\ queue' = send(send(queue, Simple("Stop")),
                     [type |-> "Confirm", reply |-> c])
    /\ conn' = [conn EXCEPT ![c] = "waiting"]
    /\ Unchanged_player

(* handle_cmd, "terminate" after receiver.coro_wait() returned *)
ProcessExit(c) ==
    /\ alive
    /\ conn[c] = "acked"
    /\ alive' = FALSE
    /\ UNCHANGED <<mode, songs, history, playlist, current, should_play,
                   position, control_pipe, last_start, queue, conn, procs, now,
                   panicked, nSpawned, picked>>

-----------------------------------------------------------------------------
(* The environment of the actor: mpv children, their watchers, the clock   *)

(* An mpv child exits: the song ended, it read "quit", or it failed. *)
ChildExit(p) ==
    /\ alive
    /\ procs[p].st = "running"
    /\ procs' = [procs EXCEPT ![p].st = "exited"]
    /\ UNCHANGED <<mode, songs, history, playlist, current, should_play,
                   position, control_pipe, last_start, queue, conn, now, alive,
                   panicked, nSpawned, picked>>

(* Variant: the watcher reaps the child and sends nothing *)
WatcherDone_Lost(p) ==
    /\ alive
    /\ procs[p].st = "exited"
    /\ procs' = [procs EXCEPT ![p] = FreeProc]
    /\ UNCHANGED <<mode, songs, history, playlist, current, should_play,
                   position, control_pipe, last_start, queue, conn, now, alive,
                   panicked, nSpawned, picked>>

(* Variant: the watcher sends Done without awaiting the child's exit *)
WatcherDone_NoWait(p) ==
    /\ alive
    /\ procs[p].st = "running"
    /\ NumDone(queue) = 0
    /\ queue' = send(queue, Simple("Done"))
    /\ UNCHANGED <<mode, songs, history, playlist, current, should_play,
                   position, control_pipe, last_start, conn, procs, now, alive,
                   panicked, nSpawned, picked>>

(* Variant: the watcher sends Done twice *)
WatcherDone_Twice(p) ==
    /\ alive
    /\ procs[p].st = "exited"
    /\ queue' = send(send(queue, Simple("Done")), Simple("Done"))
    /\ procs' = [procs EXCEPT ![p] = FreeProc]
    /\ UNCHANGED <<mode, songs, history, playlist, current, should_play,
                   position, control_pipe, last_start, conn, now, alive,
                   panicked, nSpawned, picked>>

(* The watcher coroutine of start: child.coro_wait() returned, send Done *)
WatcherDone(p) ==
    /\ alive
    /\ procs[p].st = "exited"
    /\ queue' = send(queue, Simple("Done"))
    /\ procs' = [procs EXCEPT ![p] = FreeProc]
    /\ UNCHANGED <<mode, songs, history, playlist, current, should_play,
                   position, control_pipe, last_start, conn, now, alive,
                   panicked, nSpawned, picked>>

(* Time passes while a start instant is stored.  prev only compares the    *)
(* elapsed time with RestartSecs: all readings up to it compare alike, and *)
(* so do all readings past it, so the clock steps from one to the other.   *)
Tick ==
    /\ alive
    /\ last_start # None
    /\ now - Unwrap(last_start) <= RestartSecs
    /\ now' = Unwrap(last_start) + RestartSecs + 1
    /\ UNCHANGED <<mode, songs, history, playlist, current, should_play,
                   position, control_pipe, last_start, queue, conn, procs,
                   alive, panicked, nSpawned, picked>>

-----------------------------------------------------------------------------
Init ==
    /\ NewPlayer
    /\ queue = <<>>
    /\ conn = [c \in Conns |-> "open"]
    /\ procs = [p \in Pids |-> FreeProc]
    /\ now = Epoch
    /\ alive = TRUE
    /\ panicked = FALSE
    /\ nSpawned = 0
    /\ picked = <<>>

Next ==
    \/ ExecPlay
    \/ ExecStop
    \/ ExecNext
    \/ ExecPrev
    \/ ExecLoad
    \/ ExecMode
    \/ ExecConfirm
    \/ ExecDone
    \/ ConnPlay
    \/ ConnNext
    \/ ConnPrev
    \/ ConnStop
    \/ ConnMode
    \/ ConnLoad
    \/ \E c \in Conns : ConnQuit(c)
    \/ \E c \in Conns : ConnTerminate(c)
    \/ \E c \in Conns : ProcessExit(c)
    \/ \E p \in Pids : ChildExit(p)
    \/ \E p \in Pids : WatcherDone(p)
    \/ Tick

Spec == Init /\ [][Next]_vars

(* The scheduling the liveness properties rest on: the actor loop takes    *)
(* the command at the head of the queue, a watcher whose child has exited  *)
(* sends its Done, and a child that can exit eventually does.              *)
ActorStep ==
    \/ ExecPlay \/ ExecStop \/ ExecNext \/ ExecPrev
    \/ ExecLoad \/ ExecMode \/ ExecConfirm \/ ExecDone

Fairness ==
    /\ WF_vars(ActorStep)
    /\ \A p \in Pids : WF_vars(ChildExit(p))
    /\ \A p \in Pids : WF_vars(WatcherDone(p))

(* The daemon with <<"a", "b">> loaded and a mode chosen, before the first  *)
(* Play: the state after one Load and at most one Mode command.            *)
InitLive ==
    /\ mode \in Modes
    /\ songs = <<"a", "b">>
    /\ history = <<>>
    /\ playlist = <<>>
    /\ current = None
    /\ should_play = FALSE
    /\ position = 0
    /\ control_pipe = None
    /\ last_start = None
    /\ queue = <<>>
    /\ conn = [c \in Conns |-> "open"]
    /\ procs = [p \in Pids |-> FreeProc]
    /\ now = Epoch
    /\ alive = TRUE
    /\ panicked = FALSE
    /\ nSpawned = 0
    /\ picked = <<>>

(* The clients of this specification send play, next, prev, stop and       *)
(* terminate.                                                              *)
NextLive ==
    \/ ExecPlay
    \/ ExecStop
    \/ ExecNext
    \/ ExecPrev
    \/ ExecConfirm
    \/ ExecDone
    \/ ConnPlay
    \/ ConnNext
    \/ ConnPrev
    \/ ConnStop
    \/ \E c \in Conns : ConnTerminate(c)
    \/ \E c \in Conns : ProcessExit(c)
    \/ \E p \in Pids : ChildExit(p)
    \/ \E p \in Pids : WatcherDone(p)
    \/ Tick

SpecLive == InitLive /\ [][NextLive]_vars /\ Fairness


-----------------------------------------------------------------------------
(* A second initial state for the history bound: the daemon after it has   *)
(* played HistoryMax - 1 songs.  It is reached from Init by loading        *)
(* <<"a", "b">>, Play under Random with the draws alternating, and a Stop  *)
(* before the last child's Done.                                           *)

PlayedBefore == [i \in 1..(HistoryMax - 1) |-> IF i % 2 = 1 THEN "a" ELSE "b"]

InitHist ==
    /\ mode = "Random"
    /\ songs = <<"a", "b">>
    /\ history = PlayedBefore
    /\ playlist = <<>>
    /\ current = None
    /\ should_play = FALSE
    /\ position = 1
    /\ control_pipe = None
    /\ last_start = None
    /\ queue = <<>>
    /\ conn = [c \in Conns |-> "open"]
    /\ procs = [p \in Pids |-> FreeProc]
    /\ now = Epoch
    /\ alive = TRUE
    /\ panicked = FALSE
    /\ nSpawned = 0
    /\ picked = <<>>

(* The clients of this specification only send play, next, prev and stop *)
NextHist ==
    \/ ExecPlay
    \/ ExecStop
    \/ ExecNext
    \/ ExecPrev
    \/ ExecDone
    \/ ConnPlay
    \/ ConnNext
    \/ ConnPrev
    \/ ConnStop
    \/ \E p \in Pids : ChildExit(p)
    \/ \E p \in Pids : WatcherDone(p)
    \/ Tick

SpecHist == InitHist /\ [][NextHist]_vars

-----------------------------------------------------------------------------
(* A harness for choose_song alone: the player in a state the daemon can   *)
(* be in between two commands, and repeated calls of choose_song, each     *)
(* logged with the cursor and the override playlist it found.              *)

SelSongs == { <<>>, <<"a">>, <<"a", "b">>, <<"a", "b", "c">> }
SelPlaylists == { <<>>, <<"c">>, <<"c", "a">> }

InitSel ==
    /\ mode \in Modes
    /\ songs \in SelSongs
    /\ position \in (IF songs = <<>> THEN {0} ELSE 0..(Len(songs) + 1))
    /\ playlist \in SelPlaylists
    /\ history = <<>>
    /\ current = None
    /\ should_play = FALSE
    /\ control_pipe = None
    /\ last_start = None
    /\ queue = <<>>
    /\ conn = [c \in Conns |-> "open"]
    /\ procs = [p \in Pids |-> FreeProc]
    /\ now = Epoch
    /\ alive = TRUE
    /\ panicked = FALSE
    /\ nSpawned = 0
    /\ picked = <<>>

SelChoose ==
    /\ Len(picked) < MaxPicks
    /\ \E rnd \in RandomDraws :
           LET c == choose_song(St, rnd)
           IN  /\ Apply(c.st)
               /\ picked' = Append(picked, [position |-> position,
                                            playlist |-> playlist,
                                            ret |-> c.ret])
    /\ UNCHANGED <<queue, alive>>

NextSel == SelChoose

SpecSel == InitSel /\ [][NextSel]_vars

-----------------------------------------------------------------------------
(* A harness for Sequence selection across appending Loads: the player     *)
(* right after a Load without append, mode held at Sequence, the override  *)
(* playlist empty; calls of choose_song, each logged with the index it     *)
(* read and the length of songs it found, alternate with Load commands     *)
(* that append.                                                            *)

SeqLoaded == { <<"a">>, <<"a", "b">> }
SeqAppended == { <<"c">> }

InitSeq ==
    /\ mode = "Sequence"
    /\ songs \in SeqLoaded
    /\ position = 0
    /\ playlist = <<>>
    /\ history = <<>>
    /\ current = None
    /\ should_play = FALSE
    /\ control_pipe = None
    /\ last_start = None
    /\ queue = <<>>
    /\ conn = [c \in Conns |-> "open"]
    /\ procs = [p \in Pids |-> FreeProc]
    /\ now = Epoch
    /\ alive = TRUE
    /\ panicked = FALSE
    /\ nSpawned = 0
    /\ picked = <<>>

SeqChoose ==
    /\ Len(picked) < MaxPicks
    /\ LET c == choose_song(St, 0)
       IN  /\ Apply(c.st)
           /\ picked' = Append(picked, [index |-> c.st.position - 1,
                                        len |-> Len(songs),
                                        ret |-> c.ret])
    /\ UNCHANGED <<queue, alive>>

SeqAppend ==
    /\ \E l \in SeqAppended :
           /\ Len(songs) + Len(l) <= MaxSongs
           /\ Apply(cmd(St, [type |-> "Load", songs |-> l, append |-> TRUE],
                        0, FALSE))
    /\ UNCHANGED <<queue, alive, picked>>

NextSeq == SeqChoose \/ SeqAppend

SpecSeq == InitSeq /\ [][NextSeq]_vars

-----------------------------------------------------------------------------
(* Vocabulary of the properties *)

(* The step is the actor executing the command at the head of the queue;   *)
(* no other action shortens the queue.                                     *)
Executes(type) ==
    /\ queue # <<>>
    /\ Head(queue).type = type
    /\ queue' = Tail(queue)

Running == {p \in Pids : procs[p].st = "running"}
NotReaped == {p \in Pids : procs[p].st # "free"}

(* The child the stored control pipe leads to is still running *)
LiveChild == control_pipe # None /\ procs[Unwrap(control_pipe)].st = "running"


-----------------------------------------------------------------------------
(* C1.  At most one mpv child is live at any time, and a child is only     *)
(* spawned once the previous one has exited and its Done was processed:    *)
(* of the children not yet reaped and the Done commands still queued there *)
(* is at most one, and while there is one the handle of that child is      *)
(* still stored, which is what keeps play_pause, next and done from        *)
(* starting another.                                                       *)
C1_OneSubprocess ==
    /\ Cardinality(Running) <= 1
    /\ Cardinality(NotReaped) + NumDone(queue) <= 1
    /\ \A p \in NotReaped : control_pipe = Some(p)
    /\ NumDone(queue) > 0 => control_pipe # None

(* A second child runs after the first was reaped and its Done processed *)
C1_Witness ==
    /\ nSpawned = 2
    /\ Cardinality(Running) = 1
    /\ history # <<>>

(* C2, as claimed.  current is set exactly when a control pipe is stored. *)
C2_Original == (current # None) <=> (control_pipe # None)

(* C2, amended.  current set implies a stored control pipe.  A stored pipe *)
(* with current unset is the state Prev leaves while a child is live: prev *)
(* took current and last_start and moved the song to the playlist, where   *)
(* it waits for the Done of that child.                                    *)
C2_CurrentImpliesPipe ==
    /\ current # None => control_pipe # None
    /\ (current # None) <=> (last_start # None)
    /\ control_pipe # None /\ current = None => playlist # <<>>

(* Prev was processed while a song played: pipe stored, current unset *)
C2_Witness ==
    /\ control_pipe # None
    /\ current = None
    /\ LiveChild
    /\ "quit" \in procs[Unwrap(control_pipe)].sent

(* C3.  history never holds more than HistoryMax entries, and a Done that  *)
(* finds current set appends it at the back, dropping the front entry when *)
(* the append would exceed HistoryMax; no other entry moves.               *)
C3_HistoryBound ==
    /\ [](Len(history) <= HistoryMax)
    /\ [][Executes("Done") /\ current # None =>
            history' = IF Len(history) >= HistoryMax
                       THEN Append(Tail(history), Unwrap(current))
                       ELSE Append(history, Unwrap(current))]_vars

(* history is full and its oldest entry was evicted: the entry at the      *)
(* front is the second of PlayedBefore                                     *)
C3_Witness ==
    /\ Len(history) = HistoryMax
    /\ history[1] = PlayedBefore[2]
    /\ history[HistoryMax - 1] \in {"a", "b"}

(* C4.  The connection that sent terminate is acknowledged only by the   *)
(* Confirm it queued right behind its Stop: at the step that acknowledges  *)
(* it, should_play is false and, if the stored pipe leads to a running     *)
(* child, the quit directive has been written to that child.               *)
C4_AckAfterStop ==
    [][\A c \in Conns :
          conn[c] = "waiting" /\ conn'[c] = "acked" =>
              /\ Executes("Confirm")
              /\ ~should_play /\ ~should_play'
              /\ LiveChild => "quit" \in procs[Unwrap(control_pipe)].sent]_vars

(* The acknowledgment arrived while the stopped child is still running *)
C4_Witness ==
    \E c \in Conns :
        /\ conn[c] = "acked"
        /\ ~should_play
        /\ LiveChild
        /\ "quit" \in procs[Unwrap(control_pipe)].sent
        /\ current # None

-----------------------------------------------------------------------------
(* Properties of choose_song, over the log of the harness SpecSel, whose   *)
(* calls leave mode and songs as they are.                                 *)

Calls == 1..Len(picked)

(* The cursor after call i *)
PosAfter(i) == IF i < Len(picked) THEN picked[i + 1].position ELSE position

(* The override playlist after call i *)
PlaylistAfter(i) ==
    IF i < Len(picked) THEN picked[i + 1].playlist ELSE playlist

(* The index call i reads songs at *)
IndexRead(i) ==
    Cursor([mode |-> mode, songs |-> songs, position |-> picked[i].position], 0)

(* Call i selects from songs: no override entry, and songs is not empty *)
FromSongs(i) == picked[i].playlist = <<>> /\ songs # <<>>

(* C5, as claimed.  Under Sequence and Circular every call that selects    *)
(* from songs reads at an index below len(songs) and returns a song.       *)
C5_Original ==
    \A i \in Calls :
        FromSongs(i) /\ mode \in {"Sequence", "Circular"} =>
            IndexRead(i) < Len(songs) /\ picked[i].ret # None

(* C5, amended.  The read is bounds-checked and never fails.  Under        *)
(* Circular the index read is below len(songs) and a song is returned.     *)
(* Under Sequence the index read is at most len(songs); the call returns   *)
(* a song when it is below len(songs) and nothing when it equals it.       *)
C5_CursorInRange ==
    \A i \in Calls :
        FromSongs(i) =>
            /\ mode = "Circular" =>
                   IndexRead(i) < Len(songs) /\ picked[i].ret # None
            /\ mode = "Sequence" =>
                   /\ IndexRead(i) <= Len(songs)
                   /\ (picked[i].ret # None) <=> (IndexRead(i) < Len(songs))
            /\ mode # "Random" /\ picked[i].ret # None =>
                   picked[i].ret = Some(songs[IndexRead(i) + 1])

(* A Sequence call read at len(songs) and returned nothing *)
C5_Witness ==
    /\ mode = "Sequence"
    /\ \E i \in Calls :
           /\ FromSongs(i)
           /\ IndexRead(i) = Len(songs)
           /\ picked[i].ret = None

(* The run starts at the cursor 0 with no override entry, under Sequence *)
SequenceRun ==
    /\ mode = "Sequence"
    /\ songs # <<>>
    /\ picked # <<>>
    /\ picked[1].position = 0
    /\ picked[1].playlist = <<>>

(* C6, as claimed.  With songs = [a, b, c] four selections under Sequence  *)
(* from the cursor 0 yield a, b, c, a and leave the cursor at 1.           *)
C6_Original ==
    SequenceRun /\ songs = <<"a", "b", "c">> /\ Len(picked) = 4 =>
        /\ [i \in 1..4 |-> picked[i].ret]
               = <<Some("a"), Some("b"), Some("c"), Some("a")>>
        /\ position = 1

(* C6, amended.  Under Sequence from the cursor 0 the selections return    *)
(* the songs in index order, then nothing once (the read at len(songs)),   *)
(* and then start over: call i reads the index (i - 1) % (len + 1).  With  *)
(* songs = [a, b, c] five selections yield a, b, c, nothing, a with the    *)
(* cursor at 4 after the fourth and at 1 after the fifth.                  *)
C6_SequenceOrder ==
    SequenceRun =>
        /\ \A i \in Calls :
               LET k == (i - 1) % (Len(songs) + 1)
               IN  /\ picked[i].ret = Get(songs, k)
                   /\ PosAfter(i) = k + 1
        /\ songs = <<"a", "b", "c">> /\ Len(picked) = 5 =>
               /\ [i \in 1..5 |-> picked[i].ret]
                      = <<Some("a"), Some("b"), Some("c"), None, Some("a")>>
               /\ picked[5].position = 4
               /\ position = 1

(* Five selections over [a, b, c] were made and the run wrapped around *)
C6_Witness ==
    /\ SequenceRun
    /\ songs = <<"a", "b", "c">>
    /\ Len(picked) = 5
    /\ picked[4].ret = None
    /\ picked[5].ret = Some("a")

(* C7.  Under Circular a selection from songs made with the cursor at or   *)
(* past len(songs) returns songs[0] and leaves the cursor at 1; every      *)
(* selection returns a song, and the following one returns its successor   *)
(* in index order, the first song following the last.                      *)
C7_CircularWraps ==
    mode = "Circular" =>
        \A i \in Calls :
            FromSongs(i) =>
                /\ picked[i].ret # None
                /\ picked[i].position >= Len(songs) =>
                       picked[i].ret = Some(songs[1]) /\ PosAfter(i) = 1
                /\ picked[i].position < Len(songs) =>
                       /\ picked[i].ret = Some(songs[picked[i].position + 1])
                       /\ PosAfter(i) = picked[i].position + 1
                /\ i > 1 /\ FromSongs(i - 1) =>
                       IndexRead(i) = (IndexRead(i - 1) + 1) % Len(songs)

(* songs = [a, b], cursor 2: the selection returned a, then b followed *)
C7_Witness ==
    /\ mode = "Circular"
    /\ songs = <<"a", "b">>
    /\ Len(picked) >= 2
    /\ picked[1].position = 2
    /\ picked[1].playlist = <<>>
    /\ picked[1].ret = Some("a")
    /\ picked[2].position = 1
    /\ picked[2].ret = Some("b")

-----------------------------------------------------------------------------
(* What Load and SetMode must leave alone *)
LoadFrame ==
    UNCHANGED <<current, control_pipe, should_play, history, playlist,
                last_start, procs, nSpawned, panicked, conn>>

(* C8.  Load without append replaces songs by the submitted list and sets  *)
(* position to 0; Load with append puts the submitted list behind the old  *)
(* one and keeps position.  Load keeps mode, SetMode keeps songs and       *)
(* position, and neither touches current, the control pipe, should_play,   *)
(* history, playlist, last_start or any child.                             *)
C8_LoadAndModeFrame ==
    /\ [][Executes("Load") =>
            /\ Head(queue).append =>
                   /\ songs' = songs \o Head(queue).songs
                   /\ position' = position
            /\ ~Head(queue).append =>
                   /\ songs' = Head(queue).songs
                   /\ position' = 0
            /\ mode' = mode
            /\ LoadFrame]_vars
    /\ [][Executes("Mode") =>
            /\ mode' = Head(queue).mode
            /\ songs' = songs
            /\ position' = position
            /\ LoadFrame]_vars

(* An appending Load extended a list that was being played from *)
C8_Witness ==
    /\ songs = <<"a", "b", "a", "b">>
    /\ position > 0
    /\ current # None

(* C9.  Prev processed while song x has played for at most RestartSecs,    *)
(* with history and playlist empty: playlist becomes <<x>>, should_play is *)
(* set, the quit directive is written to the live child, and nothing is    *)
(* spawned.  The Done that then finds <<x>> on the playlist starts x       *)
(* again, unless a Stop came in between or the spawn fails.                *)
C9_PrevReplays ==
    /\ [][/\ Executes("Prev")
          /\ current # None
          /\ last_start # None /\ now - Unwrap(last_start) <= RestartSecs
          /\ history = <<>> /\ playlist = <<>>
          => /\ playlist' = <<Unwrap(current)>>
             /\ current' = None
             /\ history' = <<>>
             /\ should_play'
             /\ control_pipe' = control_pipe
             /\ nSpawned' = nSpawned
             /\ \A p \in Pids : procs'[p].st = procs[p].st
             /\ LiveChild => "quit" \in procs'[Unwrap(control_pipe)].sent]_vars
    /\ [][/\ Executes("Done")
          /\ current = None /\ control_pipe # None
          /\ Len(playlist) = 1
          => /\ playlist' = (IF should_play THEN <<>> ELSE playlist)
             /\ history' = history
             /\ current' \in {None, Some(playlist[1])}
             /\ should_play /\ nSpawned' > nSpawned =>
                    current' = Some(playlist[1])
             /\ should_play /\ nSpawned' = nSpawned => ~should_play'
             /\ ~should_play => current' = None /\ control_pipe' = None]_vars

(* a plays again, and nothing has entered history: the first child was     *)
(* stopped by Prev                                                         *)
C9_Witness ==
    /\ nSpawned = 2
    /\ history = <<>>
    /\ playlist = <<>>
    /\ current = Some("a")
    /\ songs = <<"a", "b">>
    /\ mode = "Sequence"
    /\ position = 1

-----------------------------------------------------------------------------
(* The harness step: one call of choose_song was logged *)
Selects == Len(picked') = Len(picked) + 1

(* C10.  A call that finds the override playlist non-empty returns its     *)
(* last entry, removes exactly that entry and changes neither position nor *)
(* songs; a call changes position only when the playlist is empty.         *)
C10_PlaylistFirst ==
    [][Selects =>
          /\ playlist # <<>> =>
                 /\ Last(picked').ret = Some(Last(playlist))
                 /\ playlist' = Front(playlist)
                 /\ position' = position
                 /\ songs' = songs
          /\ playlist = <<>> =>
                 /\ playlist' = <<>>
                 /\ songs' = songs
                 /\ IF songs = <<>>
                    THEN Last(picked').ret = None /\ position' = position
                    ELSE /\ position' >= 1
                         /\ Last(picked').ret = Get(songs, position' - 1)
          /\ position' # position => playlist = <<>>]_vars

(* Both entries of <<"c", "a">> were returned, the later pushed first,     *)
(* before the first selection from songs                                   *)
C10_Witness ==
    /\ Len(picked) >= 3
    /\ picked[1].playlist = <<"c", "a">>
    /\ picked[1].ret = Some("a")
    /\ picked[2].ret = Some("c")
    /\ picked[2].position = picked[1].position
    /\ picked[3].playlist = <<>>
    /\ picked[3].ret = Some("b")

-----------------------------------------------------------------------------
(* The commands a client or the terminate protocol can have queued; Done   *)
(* is the only other one.                                                  *)
ClientCmds == {"Play", "Stop", "Next", "Prev", "Load", "Mode", "Confirm"}

(* The statuses of the children, without the directives written to them *)
ProcStatus == [p \in Pids |-> procs[p].st]

(* The handler wrote `key` to the child behind the stored pipe, if that    *)
(* child still runs, and did nothing else to any child.                    *)
OnlyWrote(key) ==
    /\ ProcStatus' = ProcStatus
    /\ \A p \in Pids :
           procs'[p].sent =
               IF control_pipe = Some(p) /\ procs[p].st = "running"
               THEN procs[p].sent \cup {key}
               ELSE procs[p].sent

(* C11.  The stored control pipe is only ever cleared by the step that     *)
(* processes Done: no step processing Play, Stop, Next, Prev, Load, Mode   *)
(* or Confirm while a pipe is stored changes it or starts a child, and     *)
(* nothing outside the actor touches it.  Stop and Next processed while a  *)
(* pipe is stored only write the quit directive.                           *)
C11_IdleOnlyOnDone ==
    /\ [][control_pipe # None /\ control_pipe' # control_pipe =>
            Executes("Done")]_vars
    /\ [][\A t \in ClientCmds :
            Executes(t) /\ control_pipe # None =>
                /\ control_pipe' = control_pipe
                /\ nSpawned' = nSpawned
                /\ ProcStatus' = ProcStatus]_vars
    /\ [][(Executes("Stop") \/ Executes("Next")) /\ control_pipe # None =>
            OnlyWrote("quit")]_vars

(* Next wrote quit, the child has exited, its Done is not emitted yet: the *)
(* pipe is still stored                                                    *)
C11_Witness ==
    /\ control_pipe # None
    /\ procs[Unwrap(control_pipe)].st = "exited"
    /\ "quit" \in procs[Unwrap(control_pipe)].sent
    /\ should_play
    /\ NumDone(queue) = 0

-----------------------------------------------------------------------------
(* The step made exactly one call of choose_song: it popped the override   *)
(* playlist, or, that being empty, moved the cursor one past the index the *)
(* mode selects; with nothing loaded the call changes nothing.             *)
OneSelection ==
    IF playlist # <<>>
    THEN playlist' = Front(playlist) /\ position' = position
    ELSE /\ playlist' = <<>>
         /\ IF songs = <<>>
            THEN position' = position
            ELSE \E rnd \in RandomDraws : position' = Cursor(St, rnd) + 1

(* The step made no call of choose_song *)
NoSelection == playlist' = playlist /\ position' = position

(* No pipe, no current song, no start instant *)
Idle == control_pipe = None /\ current = None /\ last_start = None

(* The outcome of a call of start: either a child was spawned, its pipe,   *)
(* the song and the instant are stored and should_play stays as it was, or *)
(* nothing was spawned, the player is idle and should_play is cleared.     *)
Started ==
    /\ nSpawned' = nSpawned + 1
    /\ control_pipe' # None /\ current' # None /\ last_start' # None
    /\ procs'[Unwrap(control_pipe')].st = "running"

NotStarted ==
    /\ nSpawned' = nSpawned
    /\ Idle'
    /\ ~should_play'
    /\ ProcStatus' = ProcStatus

(* C12.  Processing Done puts current, when set, at the back of history,   *)
(* and clears the pipe and last_start.  With should_play set it then makes *)
(* exactly one selection and starts the selected song; with should_play    *)
(* clear it selects nothing, starts nothing and leaves the player idle.    *)
C12_DoneAdvances ==
    [][Executes("Done") =>
          /\ current # None =>
                 /\ history' # <<>>
                 /\ Last(history') = Unwrap(current)
                 /\ Front(history') =
                        IF Len(history) < HistoryMax THEN history
                        ELSE Tail(history)
          /\ current = None => history' = history
          /\ should_play =>
                 /\ OneSelection
                 /\ (Started /\ should_play') \/ NotStarted
          /\ ~should_play => NoSelection /\ NotStarted]_vars

(* Under Circular the Done of a found its successor b and started it *)
C12_Witness ==
    /\ mode = "Circular"
    /\ songs = <<"a", "b">>
    /\ history = <<"a">>
    /\ current = Some("b")
    /\ position = 2
    /\ nSpawned = 2
    /\ should_play

-----------------------------------------------------------------------------
(* Stop was processed while a pipe is stored, and nothing has undone it *)
Stopped == ~should_play /\ control_pipe # None

(* The actor processes one of the commands that ask for playback *)
Resumes == Executes("Play") \/ Executes("Next") \/ Executes("Prev")

(* A command that asks for playback waits in the queue; a command is only  *)
(* processed after it has waited there.                                    *)
ResumePending ==
    \E i \in 1..Len(queue) : queue[i].type \in {"Play", "Next", "Prev"}

(* C13.  Once should_play is clear while a pipe is stored, the player      *)
(* becomes idle with should_play clear, unless Play, Next or Prev comes to *)
(* be processed first or the daemon exits; and while should_play is clear  *)
(* no step but the processing of Play, Next or Prev sets it, starts a      *)
(* child or stores a pipe: the Done of the stopped child does not advance. *)
C13_StopSettles ==
    /\ Stopped ~> \/ Idle /\ ~should_play
                  \/ ResumePending
                  \/ ~alive
    /\ [][/\ ~should_play
          /\ \/ should_play'
             \/ nSpawned' # nSpawned
             \/ control_pipe' \notin {control_pipe, None}
          => Resumes]_vars

(* The stopped child was reaped and its Done processed: the player is idle *)
(* with the stopped song in history and should_play clear                  *)
C13_Witness ==
    /\ Idle
    /\ ~should_play
    /\ history # <<>>
    /\ nSpawned = 1
    /\ NotReaped = {}
    /\ queue = <<>>

-----------------------------------------------------------------------------
(* What the one selection of the step returned *)
Selected ==
    IF playlist # <<>> THEN Some(Last(playlist))
    ELSE IF songs = <<>> THEN None
    ELSE Get(songs, position' - 1)

(* The call of start in the step: one selection, and the selected song,    *)
(* if there is one and the spawn succeeds, is the one now playing.         *)
CallsStart ==
    /\ OneSelection
    /\ Started \/ NotStarted
    /\ Started => current' = Selected
    /\ Selected = None => NotStarted

(* C14.  Next processed while a pipe is stored sets should_play, writes    *)
(* the quit directive and does nothing else: it selects and starts         *)
(* nothing.  The Done processed with should_play still set makes the one   *)
(* selection and starts the selected song.  Next processed with no pipe    *)
(* stored calls start itself: exactly one selection, and should_play stays *)
(* set exactly when a child was started.                                   *)
C14_NextAdvances ==
    /\ [][Executes("Next") /\ control_pipe # None =>
            /\ should_play'
            /\ control_pipe' = control_pipe
            /\ current' = current
            /\ last_start' = last_start
            /\ nSpawned' = nSpawned
            /\ NoSelection
            /\ OnlyWrote("quit")]_vars
    /\ [][Executes("Done") /\ should_play => CallsStart]_vars
    /\ [][Executes("Next") /\ control_pipe = None =>
            /\ CallsStart
            /\ should_play' <=> Started]_vars

(* Next was processed while a plays: should_play is set, quit is the only  *)
(* directive written, and the child still runs                             *)
C14_Witness ==
    /\ should_play
    /\ LiveChild
    /\ procs[Unwrap(control_pipe)].sent = {"quit"}
    /\ current = Some("a")
    /\ nSpawned = 1

-----------------------------------------------------------------------------
(* C15.  Neither assert! of start ever fails.  play_pause and next call    *)
(* start only with no pipe stored, and then no current song is stored      *)
(* either; done calls it after clearing both.                              *)
C15_StartPrecondition ==
    /\ ~panicked
    /\ control_pipe = None => current = None /\ last_start = None

(* start has run from Play and again from the Done that followed a Prev;   *)
(* a further Prev has put the song back on the override playlist           *)
C15_Witness ==
    /\ ~panicked
    /\ nSpawned = 2
    /\ history = <<>>
    /\ playlist # <<>>
    /\ control_pipe # None

-----------------------------------------------------------------------------
(* The step called start (from Done with should_play set, or from Play or  *)
(* Next with no pipe stored), start selected a song, and no child was      *)
(* spawned: the spawn failed.                                              *)
SpawnFails ==
    /\ \/ Executes("Done") /\ should_play
       \/ (Executes("Play") \/ Executes("Next")) /\ control_pipe = None
    /\ Selected # None
    /\ nSpawned' = nSpawned

(* C16.  A failed spawn ends in the idle state and not in a panic:         *)
(* should_play is cleared, no pipe, current or last_start is stored, no    *)
(* child and no watcher exist, so no Done is queued for the attempt, and   *)
(* the selection is consumed.  A child is started from the idle state only *)
(* by the processing of Play, Next or Prev.                                *)
C16_SpawnFailure ==
    /\ [][SpawnFails =>
            /\ ~panicked'
            /\ alive'
            /\ Idle'
            /\ ~should_play'
            /\ OneSelection
            /\ NotReaped' = {}
            /\ queue' = Tail(queue)
            /\ NumDone(queue') = 0]_vars
    /\ [][control_pipe = None /\ nSpawned' # nSpawned => Resumes]_vars

(* The cursor has moved past a song and no child was ever spawned: the     *)
(* spawn of the selected song failed                                       *)
C16_Witness ==
    /\ position > 0
    /\ songs # <<>>
    /\ nSpawned = 0
    /\ Idle
    /\ ~should_play
    /\ ~panicked

-----------------------------------------------------------------------------
(* C17.  Prev processed while song c plays and history is not empty, its   *)
(* last entry being h.  If c has played for more than RestartSecs, c alone *)
(* is pushed onto the playlist and history is unchanged.  Otherwise h is   *)
(* removed from history and pushed on top of c.  Either way the live child *)
(* is told to quit, and each Done that finds should_play set starts the    *)
(* top of the playlist: h before c, and c when c alone was pushed.         *)
C17_PrevOrder ==
    /\ [][/\ Executes("Prev")
          /\ current # None /\ last_start # None
          /\ history # <<>>
          => /\ IF now - Unwrap(last_start) > RestartSecs
                THEN /\ playlist' = Append(playlist, Unwrap(current))
                     /\ history' = history
                ELSE /\ playlist' = playlist \o <<Unwrap(current), Last(history)>>
                     /\ history' = Front(history)
             /\ current' = None
             /\ should_play'
             /\ control_pipe' = control_pipe
             /\ nSpawned' = nSpawned
             /\ OnlyWrote("quit")]_vars
    /\ [][Executes("Done") /\ should_play /\ playlist # <<>> =>
            /\ playlist' = Front(playlist)
            /\ Started => current' = Some(Last(playlist))
            /\ current = None => history' = history]_vars

(* b was stopped by Prev within RestartSecs, with a the last entry of      *)
(* history: a plays first, b waits on the playlist, a has left history     *)
C17_Witness ==
    /\ current = Some("a")
    /\ playlist = <<"b">>
    /\ history = Front(PlayedBefore)
    /\ nSpawned = 2
    /\ should_play

-----------------------------------------------------------------------------
(* The Done commands still to come: one per child whose watcher has not    *)
(* sent it yet, and those waiting in the queue.                            *)
PendingDone == Cardinality(NotReaped) + NumDone(queue)

(* C18.  While a pipe is stored exactly one Done is pending, queued or not *)
(* yet sent by the watcher of the child the pipe leads to, and while none  *)
(* is stored none is pending.  So every Done the actor takes from the      *)
(* queue finds a pipe stored, is the only Done there is, and belongs to    *)
(* the child of that pipe, which its watcher has reaped; what was written  *)
(* to the child by Play, Stop, Next or Prev makes no difference.           *)
C18_DoneMatchesPipe ==
    /\ [](PendingDone = IF control_pipe # None THEN 1 ELSE 0)
    /\ [](\A p \in NotReaped : control_pipe = Some(p))
    /\ [][Executes("Done") =>
            /\ control_pipe # None
            /\ NotReaped = {}
            /\ NumDone(queue) = 1
            /\ NumDone(queue') = 0]_vars
    /\ [][nSpawned' # nSpawned =>
            /\ nSpawned' = nSpawned + 1
            /\ Cardinality(NotReaped') = 1
            /\ NumDone(queue') = 0]_vars

(* The Done of the second child waits in the queue behind a Next that      *)
(* raced with the child's exit                                             *)
C18_Witness ==
    /\ nSpawned = 2
    /\ control_pipe # None
    /\ Len(queue) = 2
    /\ queue[1].type = "Next"
    /\ queue[2].type = "Done"

-----------------------------------------------------------------------------
(* C19.  Between two commands should_play is set only while a pipe is      *)
(* stored: a start that selects nothing or fails to spawn clears it.  So   *)
(* Load never finds an idle player that still means to play, and           *)
(* processing Load starts nothing and leaves should_play and the pipe as   *)
(* they are.                                                               *)
C19_IntentImpliesPipe ==
    /\ [](should_play => control_pipe # None)
    /\ [][Executes("Load") =>
            /\ nSpawned' = nSpawned
            /\ should_play' = should_play
            /\ control_pipe' = control_pipe
            /\ ProcStatus' = ProcStatus]_vars

(* Under Sequence both songs were played and the selection past the end    *)
(* returned nothing: the player is idle and should_play was cleared        *)
C19_Witness ==
    /\ mode = "Sequence"
    /\ songs = <<"a", "b">>
    /\ position = 3
    /\ history = <<"a", "b">>
    /\ Idle
    /\ ~should_play

-----------------------------------------------------------------------------
(* Properties of Sequence selection over the log of the harness SpecSeq *)

(* The calls before call j that returned a song *)
Returned(j) == {i \in 1..(j - 1) : picked[i].ret # None}

(* The latest of them *)
LastReturned(j) == CHOOSE i \in Returned(j) : \A k \in Returned(j) : k <= i

(* C20, as claimed.  The songs are returned in index order and none is     *)
(* skipped: the first song returned is at index 0, and each further one is *)
(* at the index after that of the song returned before it, or, when that   *)
(* was the last song of the list as it now is, at index 0 again.           *)
C20_Original ==
    \A j \in Calls :
        picked[j].ret # None =>
            IF Returned(j) = {}
            THEN picked[j].index = 0
            ELSE LET i == LastReturned(j)
                 IN  \/ picked[j].index = picked[i].index + 1
                     \/ /\ picked[j].index = 0
                        /\ picked[i].index = picked[j].len - 1

=============================================================================
